---- MODULE Spec2Model ----
(***************************************************************************)
(* Model of the Roborock integration glue:                                 *)
(*   - RoborockDataUpdateCoordinator (coordinator.py): transport           *)
(*     selection (verify_api), polling (_async_update_data), recovery      *)
(*     replay (_recover), get_maps, release;                               *)
(*   - RoborockEntity / RoborockCoordinatedEntity (device.py): send;       *)
(*   - RoborockFlowHandler (config_flow.py): the user and code steps.      *)
(*                                                                         *)
(* An optional value (Python's `X | None`) is a sequence of length <= 1:   *)
(* <<>> is None and <<x>> is the value x.                                  *)
(*                                                                         *)
(* The coordinator is single-flow: one handler runs at a time.  The only   *)
(* concurrency inside a handler is the asyncio.gather of _recover, whose   *)
(* cached reads complete one by one in any order.                          *)
(***************************************************************************)
EXTENDS Integers, Sequences, FiniteSets, TLC

VARIABLES
    api,                \* coordinator.api: which client the coordinator uses
    is_available,       \* client.is_available, one flag per client
    props,              \* coordinator.roborock_device_info.props (DeviceProp)
    current_map,        \* coordinator.current_map (int | None)
    needed_cache_keys,  \* coordinator.needed_cache_keys (a list)
    maps,               \* coordinator.maps (dict name -> mapFlag)
    entity,             \* the entity constructed on the coordinator, if any
    pc,                 \* position of the running coordinator handler
    pending,            \* indexes of needed_cache_keys whose read is in flight
    send_ctx,           \* response held by a coordinated send awaiting refresh
    last,               \* what the running / last handler did and how it ended
    verified,           \* a verify_api call has completed
    flow_step,          \* RoborockFlowHandler: step whose form is shown
    flow_username,      \* RoborockFlowHandler._username
    flow_unique_id,     \* the flow's unique id (async_set_unique_id)
    flow_errors,        \* RoborockFlowHandler._errors.get("base")
    flow_client,        \* RoborockFlowHandler._client
    entries,            \* config entries created so far (a list)
    flow_last,          \* what the last flow step did and returned
    hq_entries,         \* Husqvarna Automower entries: unique id -> token
    hq_flow,            \* the Husqvarna Automower flow in progress, if any
    hq_last,            \* what the last Husqvarna flow step returned
    ob_unique_id,       \* OralB: entry.unique_id of every config entry
    ob_data,            \* OralB: hass.data[DOMAIN], entry_id -> coordinator
    ob_pc,              \* OralB: where the setup of every entry stands
    ob_todo,            \* OralB: platforms whose setup is still awaited
    ob_started,         \* OralB: the entry's coordinator has been started
    ob_log              \* OralB: what the last setup / unload of an entry did

coordVars == <<api, is_available, props, current_map, needed_cache_keys, maps,
               entity, pc, pending, send_ctx, last, verified>>

flowVars == <<flow_step, flow_username, flow_unique_id, flow_errors,
              flow_client, entries, flow_last>>

hqVars == <<hq_entries, hq_flow, hq_last>>

vars == <<api, is_available, props, current_map, needed_cache_keys, maps,
          entity, pc, pending, send_ctx, last, verified,
          flow_step, flow_username, flow_unique_id, flow_errors, flow_client,
          entries, flow_last, hq_entries, hq_flow, hq_last,
          ob_unique_id, ob_data, ob_pc, ob_todo, ob_started, ob_log>>

obVars == <<ob_unique_id, ob_data, ob_pc, ob_todo, ob_started, ob_log>>

\* What the handlers of one integration leave alone.
nonCoordVars == <<flowVars, hqVars, obVars>>
nonFlowVars == <<coordVars, hqVars, obVars>>
nonHqVars == <<coordVars, flowVars, obVars>>
nonObVars == <<coordVars, flowVars, hqVars>>

----------------------------------------------------------------------------
(* Bounds *)

MaxMapFlag == 1         \* map flags 0..MaxMapFlag are reported by the device
MaxNeededKeys == 2      \* longest needed_cache_keys list
MaxEntries == 2         \* flows are started while fewer entries exist
NumOralbEntries == 3    \* OralB config entries

----------------------------------------------------------------------------
(* Values *)

None == <<>>
Some(x) == <<x>>
Opt(S) == {None} \cup {Some(x) : x \in S}

LOCAL_CLIENT == "local"
CLOUD_CLIENT == "cloud"
Clients == {LOCAL_CLIENT, CLOUD_CLIENT}

\* isinstance(self.api, RoborockLocalClient)
IsLocalClient(c) == c = LOCAL_CLIENT

CacheableAttribute == {"dnd_timer", "child_lock_status"}

MapStatuses == {4 * f + 3 : f \in 0..MaxMapFlag}
Statuses == [map_status : Opt(MapStatuses)]
DeviceProps == [consumable : Opt({"consumable"}),
                clean_summary : Opt({"clean_summary"}),
                status : Opt(Statuses)]

\* DeviceProp(): every field None
EmptyDeviceProp == [consumable |-> None, clean_summary |-> None, status |-> None]

RoborockCommands == {"app_start"}
Responses == {"response_1", "response_2"}

MapNames == {"Upstairs"}
MapInfos == [name : MapNames, mapFlag : {0}]

\* One call: the object it went to, the method, its argument and what it
\* returned ("ok", or the response of send_command) or raised.
Call(c, m, a, r) == [client |-> c, method |-> m, arg |-> a, result |-> r]

\* Record of a handler that has not done anything yet.
NoLast == [op |-> "none", calls |-> <<>>, api_at_start |-> LOCAL_CLIENT,
           verify |-> "none", reverify |-> FALSE, poll |-> "none",
           data |-> None, was_available |-> TRUE, send |-> "none",
           response |-> None, translation_key |-> "", refreshes |-> 0,
           empty_result |-> FALSE]

\* Record of a handler `op` that starts now.
Start(op) == [NoLast EXCEPT !.op = op, !.api_at_start = api]

\* `last` describes the most recent step: a step taken while no handler runs
\* starts a fresh record, one taken while a handler awaits leaves its record.
StepOutsideHandler(op) ==
    IF pc = "idle" THEN Start(op) ELSE last

----------------------------------------------------------------------------
(* RoborockDataUpdateCoordinator *)

PingOutcomes == {"ok", "RoborockException", "Exception"}

\* Mutant: a failed ping is tried once more.
VerifyApiPings_Retry(a, ping) ==
    IF IsLocalClient(a)
    THEN IF ping = "RoborockException"
         THEN <<Call(a, "ping", "", ping), Call(a, "ping", "", ping)>>
         ELSE <<Call(a, "ping", "", ping)>>
    ELSE <<>>

\* Mutant: the probe does not look at which client is in use.
VerifyApiPings_AnyClient(a, ping) == <<Call(a, "ping", "", ping)>>

\* verify_api: the pings one call issues, given the api it starts with.
VerifyApiPings(a, ping) ==
    IF IsLocalClient(a) THEN <<Call(a, "ping", "", ping)>> ELSE <<>>

\* Mutant: the failure of the ping is swallowed without switching clients.
VerifyApiSelect_NoFallback(a, ping) == a

\* Mutant: a failed probe switches to the other client, whichever is in use.
VerifyApiSelect_Toggle(a, ping) ==
    IF ping = "RoborockException"
    THEN IF IsLocalClient(a) THEN CLOUD_CLIENT ELSE LOCAL_CLIENT
    ELSE a

\* verify_api: the api after the call, given the ping's outcome.
VerifyApiSelect(a, ping) ==
    IF IsLocalClient(a) /\ ping = "RoborockException" THEN CLOUD_CLIENT ELSE a

\* verify_api: how the call ends (only RoborockException is caught).
VerifyApiOutcome(a, ping) ==
    IF IsLocalClient(a) /\ ping = "Exception" THEN "Exception" ELSE "return"

verify_api(ping) ==
    /\ pc = "idle"
    /\ api' = VerifyApiSelect(api, ping)
    /\ last' = [Start("verify_api") EXCEPT
                   !.calls = VerifyApiPings(api, ping),
                   !.verify = VerifyApiOutcome(api, ping),
                   !.reverify = verified]
    /\ verified' = TRUE
    /\ UNCHANGED <<is_available, props, current_map, needed_cache_keys, maps,
                   entity, pc, pending, send_ctx>>
    /\ UNCHANGED nonCoordVars

release ==
    /\ pc = "idle"
    /\ last' = [Start("release") EXCEPT
                   !.calls = <<Call(api, "async_disconnect", "", "ok")>>]
    /\ UNCHANGED <<api, is_available, props, current_map, needed_cache_keys,
                   maps, entity, pc, pending, send_ctx, verified>>
    /\ UNCHANGED nonCoordVars

\* DeviceProp.update: every field of the new value that is set replaces the
\* stored one.
DevicePropUpdate(p, n) ==
    [consumable |-> IF n.consumable # None THEN n.consumable ELSE p.consumable,
     clean_summary |-> IF n.clean_summary # None THEN n.clean_summary
                       ELSE p.clean_summary,
     status |-> IF n.status # None THEN n.status ELSE p.status]

\* Truth value of a DeviceProp | None: an object is true, None is false.
Truthy(v) == v # None

\* _update_device_prop: the stored props after get_prop returned v.
UpdateDeviceProp(p, v) ==
    IF Truthy(v)
    THEN IF Truthy(Some(p)) THEN DevicePropUpdate(p, v[1]) ELSE v[1]
    ELSE p

\* Mutant: the offset is removed but the division by four is forgotten.
SetCurrentMap_NoDivision(p, cm) ==
    IF p.status # None /\ p.status[1].map_status # None
    THEN Some(p.status[1].map_status[1] - 3)
    ELSE cm

\* _set_current_map: current_map after the update, given the stored props.
SetCurrentMap(p, cm) ==
    IF p.status # None /\ p.status[1].map_status # None
    THEN Some((p.status[1].map_status[1] - 3) \div 4)
    ELSE cm

\* Mutant: the null-check forgets status.
NeededPropMissing_NoStatus(p) ==
    \/ p.consumable = None
    \/ p.clean_summary = None

\* The null-check of _async_update_data.
NeededPropMissing(p) ==
    \/ p.consumable = None
    \/ p.clean_summary = None
    \/ p.status = None

GetPropOutcomes ==
    {[raises |-> TRUE, value |-> None]}
        \cup {[raises |-> FALSE, value |-> v] : v \in Opt(DeviceProps)}

\* get_prop returned nothing: None, or a DeviceProp with no field set.
ReturnsNothing(out) ==
    ~out.raises /\ (out.value = None \/ out.value = Some(EmptyDeviceProp))

\* Mutant: a failed get_prop resets the stored props.
PropsAfterGetProp_ClearOnError(out, p) ==
    IF out.raises THEN EmptyDeviceProp ELSE UpdateDeviceProp(p, out.value)

\* The stored props after `await self.api.get_prop()` of _update_device_prop
\* returned or raised.
PropsAfterGetProp(out, p) ==
    IF out.raises THEN p ELSE UpdateDeviceProp(p, out.value)

\* A poll ends: the coordinated send that asked for the refresh, if any,
\* returns the response it holds.
EndPoll(l, outcome, data) ==
    /\ last' = [l EXCEPT !.poll = outcome,
                         !.data = data,
                         !.send = IF send_ctx # None THEN "return" ELSE @,
                         !.response = send_ctx]
    /\ send_ctx' = None
    /\ pc' = "idle"
    /\ pending' = {}

\* How the part of _async_update_data before the recovery ends, given the
\* outcome of get_prop, the props after the update and the api's flag.
PollBranch(out, p, available) ==
    IF out.raises THEN "UpdateFailed"
    ELSE IF NeededPropMissing(p) THEN "UpdateFailed"
    ELSE IF ~available THEN "recover"
    ELSE "return"

\* _async_update_data up to its first await of _recover.  It runs on the
\* timer (pc = "idle") or as the refresh of a coordinated send.
PollStart(out) ==
    /\ pc \in {"idle", "refresh"}
    /\ LET base == IF pc = "refresh" THEN last ELSE Start("poll")
           l == [base EXCEPT !.calls = Append(@, Call(api, "get_prop", "",
                                                IF out.raises
                                                THEN "RoborockException"
                                                ELSE "ok")),
                             !.was_available = is_available[api],
                             !.empty_result = ReturnsNothing(out)]
           p == PropsAfterGetProp(out, props)
           branch == PollBranch(out, p, is_available[api])
       IN /\ props' = p
          /\ current_map' = IF out.raises THEN current_map
                            ELSE SetCurrentMap(p, current_map)
          /\ IF branch = "recover"
             THEN /\ pc' = "recover"
                  /\ pending' = 1..Len(needed_cache_keys)
                  /\ last' = l
                  /\ UNCHANGED send_ctx
             ELSE EndPoll(l, branch, IF branch = "return" THEN Some(p) ELSE None)
    /\ UNCHANGED <<api, is_available, needed_cache_keys, maps, entity, verified>>
    /\ UNCHANGED nonCoordVars

\* Mutant: the gather collects exceptions instead of raising the first.
RecoverRead_IgnoreFailure(i, raises) ==
    /\ pc = "recover"
    /\ i \in pending
    /\ last' = [last EXCEPT !.calls =
                    Append(@, Call(api, "async_value", needed_cache_keys[i],
                                   IF raises THEN "RoborockException"
                                   ELSE "ok"))]
    /\ pending' = pending \ {i}
    /\ UNCHANGED <<pc, send_ctx>>
    /\ UNCHANGED <<api, is_available, props, current_map, needed_cache_keys,
                   maps, entity, verified>>
    /\ UNCHANGED nonCoordVars

\* _recover: one of the gathered cached reads completes.  The first one to
\* raise ends the gather, and with it the poll, with that exception.
RecoverRead(i, raises) ==
    /\ pc = "recover"
    /\ i \in pending
    /\ LET l == [last EXCEPT !.calls =
                    Append(@, Call(api, "async_value", needed_cache_keys[i],
                                   IF raises THEN "RoborockException"
                                   ELSE "ok"))]
       IN IF raises
          THEN EndPoll(l, "RoborockException", None)
          ELSE /\ last' = l
               /\ pending' = pending \ {i}
               /\ UNCHANGED <<pc, send_ctx>>
    /\ UNCHANGED <<api, is_available, props, current_map, needed_cache_keys,
                   maps, entity, verified>>
    /\ UNCHANGED nonCoordVars

\* Mutant: the api is marked available without awaiting the gather.
RecoverDone_Early ==
    /\ pc = "recover"
    /\ is_available' = [is_available EXCEPT ![api] = TRUE]
    /\ EndPoll([last EXCEPT !.calls =
                          Append(@, Call(api, "set_available", "", "ok"))],
               "return", Some(props))
    /\ UNCHANGED <<api, props, current_map, needed_cache_keys, maps, entity,
                   verified>>
    /\ UNCHANGED nonCoordVars

\* The gather has completed: self.api.is_available = True; return props.
RecoverDone ==
    /\ pc = "recover"
    /\ pending = {}
    /\ is_available' = [is_available EXCEPT ![api] = TRUE]
    /\ EndPoll([last EXCEPT !.calls =
                          Append(@, Call(api, "set_available", "", "ok"))],
               "return", Some(props))
    /\ UNCHANGED <<api, props, current_map, needed_cache_keys, maps, entity,
                   verified>>
    /\ UNCHANGED nonCoordVars

RECURSIVE AddMaps(_, _)
\* get_maps: for roborock_map in maps.map_info: self.maps[name] = mapFlag
AddMaps(m, info) ==
    IF info = <<>> THEN m
    ELSE AddMaps([n \in DOMAIN m \cup {Head(info).name} |->
                     IF n = Head(info).name THEN Head(info).mapFlag ELSE m[n]],
                 Tail(info))

MultiMapsLists ==
    Opt([map_info : Opt({<<>>} \cup {<<i>> : i \in MapInfos})])

get_maps(result) ==
    /\ pc = "idle"
    /\ maps' = IF result # None /\ result[1].map_info # None
               THEN AddMaps(maps, result[1].map_info[1])
               ELSE maps
    /\ last' = [Start("get_maps") EXCEPT
                   !.calls = <<Call(api, "get_multi_maps_list", "", "ok")>>]
    /\ UNCHANGED <<api, is_available, props, current_map, needed_cache_keys,
                   entity, pc, pending, send_ctx, verified>>
    /\ UNCHANGED nonCoordVars

\* An entity platform registers a cache key it needs replayed.
AddNeededCacheKey(k) ==
    /\ pc = "idle"
    /\ Len(needed_cache_keys) < MaxNeededKeys
    /\ needed_cache_keys' = Append(needed_cache_keys, k)
    /\ last' = Start("add_needed_cache_key")
    /\ UNCHANGED <<api, is_available, props, current_map, maps, entity, pc,
                   pending, send_ctx, verified>>
    /\ UNCHANGED nonCoordVars

\* The vendor client marks itself unavailable (its own timeout handling).
ClientBecomesUnavailable(c) ==
    /\ is_available[c]
    /\ is_available' = [is_available EXCEPT ![c] = FALSE]
    /\ last' = StepOutsideHandler("client_unavailable")
    /\ UNCHANGED <<api, props, current_map, needed_cache_keys, maps, entity,
                   pc, pending, send_ctx, verified>>
    /\ UNCHANGED nonCoordVars

----------------------------------------------------------------------------
(* RoborockEntity and RoborockCoordinatedEntity *)

EntityKinds == {"plain", "coordinated"}

\* RoborockEntity.__init__ keeps the client it is given;
\* RoborockCoordinatedEntity.__init__ gives it coordinator.api.
EntityApi(kind, c) == IF kind = "coordinated" THEN api ELSE c

ConstructEntity(kind, c) ==
    /\ pc = "idle"
    /\ entity = None
    /\ entity' = Some([kind |-> kind, api |-> EntityApi(kind, c)])
    /\ last' = Start("construct_entity")
    /\ UNCHANGED <<api, is_available, props, current_map, needed_cache_keys,
                   maps, pc, pending, send_ctx, verified>>
    /\ UNCHANGED nonCoordVars

SendOutcomes == [raises : BOOLEAN, response : Responses]

\* RoborockEntity.send: a RoborockException of send_command becomes a
\* HomeAssistantError.
SendTranslate(raises) == IF raises THEN "HomeAssistantError" ELSE "return"

SendTranslationKey(raises) == IF raises THEN "command_failed" ELSE ""

\* Mutant: the refresh is not guarded by the command's success.
SendRefreshes_Always(kind, raises) == IF kind = "coordinated" THEN 1 ELSE 0

\* Mutant: the coordinated send forgets the refresh.
SendRefreshes_Never(kind, raises) == 0

\* RoborockCoordinatedEntity.send: the refreshes it asks of the coordinator.
SendRefreshes(kind, raises) ==
    IF kind = "coordinated" /\ ~raises THEN 1 ELSE 0

\* send: send_command is dispatched; a coordinated entity then awaits
\* coordinator.async_refresh(), which runs one poll, and returns the response.
EntitySend(cmd, out) ==
    /\ pc = "idle"
    /\ entity # None
    /\ LET e == entity[1]
           n == SendRefreshes(e.kind, out.raises)
           l == [Start("send") EXCEPT
                   !.calls = <<Call(e.api, "send_command", cmd,
                                    IF out.raises THEN "RoborockException"
                                    ELSE out.response)>>
                             \o [k \in 1..n |->
                                   Call("coordinator", "async_refresh", "", "ok")],
                   !.refreshes = n]
       IN IF n > 0
          THEN /\ pc' = "refresh"
               /\ send_ctx' = Some(out.response)
               /\ last' = l
          ELSE /\ last' = [l EXCEPT
                             !.send = SendTranslate(out.raises),
                             !.translation_key = SendTranslationKey(out.raises),
                             !.response = IF out.raises THEN None
                                          ELSE Some(out.response)]
               /\ UNCHANGED <<pc, send_ctx>>
    /\ UNCHANGED <<api, is_available, props, current_map, needed_cache_keys,
                   maps, entity, pending, verified>>
    /\ UNCHANGED nonCoordVars

ListenerValues ==
    {[type |-> "Status", status |-> s] : s \in Statuses}
        \cup {[type |-> "Consumable", status |-> [map_status |-> None]]}

\* _update_from_listener: a pushed Status or Consumable is stored in props.
UpdateFromListener(value) ==
    /\ entity # None
    /\ entity[1].kind = "coordinated"
    /\ pc \in {"idle", "recover"}
    /\ props' = IF value.type = "Status"
                THEN [props EXCEPT !.status = Some(value.status)]
                ELSE [props EXCEPT !.consumable = Some("consumable")]
    /\ last' = StepOutsideHandler("update_from_listener")
    /\ UNCHANGED <<api, is_available, current_map, needed_cache_keys, maps,
                   entity, pc, pending, send_ctx, verified>>
    /\ UNCHANGED nonCoordVars

----------------------------------------------------------------------------
(* RoborockFlowHandler *)

Usernames == {"", "user@example.com", "User@Example.com", "other@example.com"}
BaseUrls == {"https://euiot.roborock.com", "https://usiot.roborock.com"}
UserDatas == {"user_data_1", "user_data_2"}
EntryCodes == {"123456"}

\* str.lower() on the usernames above
Lower(u) == IF u = "User@Example.com" THEN "user@example.com" ELSE u

\* Truth value of a str | None: None and "" are false.
TruthyStr(v) == v # None /\ v[1] # ""

\* What a step returned (FlowResult) and the vendor calls it made.
NoFlowLast == [type |-> "none", step_id |-> "", errors |-> None,
               reason |-> "", request |-> None, login |-> None]

ShowForm(step_id, errors) ==
    [NoFlowLast EXCEPT !.type = "form", !.step_id = step_id, !.errors = errors]

\* RoborockClient(username); base_url is what the vendor resolves for it;
\* code_requested tells whether request_code succeeded on it.
RoborockClient(username, base_url, requested) ==
    [username |-> username, base_url |-> base_url, code_requested |-> requested]

CallOutcomes == {"ok", "RoborockException", "Exception"}

\* async_step_user: the base error for an outcome of request_code.
RequestCodeError(outcome) ==
    IF outcome = "RoborockException" THEN Some("invalid_email")
    ELSE IF outcome = "Exception" THEN Some("unknown")
    ELSE None

\* Mutant: the client is recorded before request_code is known to succeed.
RecordClient_Always(old, client, outcome) == Some(client)

\* async_step_user: the client recorded in self._client after request_code.
RecordClient(old, client, outcome) ==
    IF outcome = "ok" THEN Some(client) ELSE old

\* async_step_user: the step whose form is shown after request_code.
StepAfterRequest(outcome) == IF outcome = "ok" THEN "code" ELSE "user"

ConfiguredIds == {entries[i].unique_id : i \in 1..Len(entries)}

async_step_user(user_input, base_url, outcome) ==
    /\ flow_step \in {"init", "user"}
    /\ IF user_input = None
       THEN /\ flow_step' = "user"
            /\ flow_errors' = None
            /\ flow_last' = ShowForm("user", None)
            /\ UNCHANGED <<flow_username, flow_unique_id, flow_client>>
       ELSE LET username == user_input[1]
                client == RoborockClient(username, base_url, outcome = "ok")
            IN /\ flow_unique_id' = Some(Lower(username))
               /\ IF Some(Lower(username)) \in ConfiguredIds
                  THEN \* _abort_if_unique_id_configured
                       /\ flow_step' = "aborted"
                       /\ flow_errors' = None
                       /\ flow_last' = [NoFlowLast EXCEPT
                                          !.type = "abort",
                                          !.reason = "already_configured"]
                       /\ UNCHANGED <<flow_username, flow_client>>
                  ELSE /\ flow_username' = Some(username)
                       /\ flow_errors' = RequestCodeError(outcome)
                       /\ flow_client' = RecordClient(flow_client, client, outcome)
                       /\ flow_step' = StepAfterRequest(outcome)
                       /\ flow_last' =
                            [ShowForm(StepAfterRequest(outcome),
                                      RequestCodeError(outcome))
                               EXCEPT !.request =
                                        Some([client |-> client,
                                              outcome |-> outcome])]
    /\ UNCHANGED entries
    /\ UNCHANGED nonFlowVars

LoginOutcomes ==
    {[outcome |-> "ok", user_data |-> Some(d)] : d \in UserDatas}
        \cup {[outcome |-> o, user_data |-> None] :
                 o \in {"RoborockException", "Exception"}}

\* _code_login: the base error for an outcome of code_login.
CodeLoginError(outcome) ==
    IF outcome = "RoborockException" THEN Some("invalid_code")
    ELSE IF outcome = "Exception" THEN Some("unknown")
    ELSE None

\* _code_login: the value it returns.
CodeLogin(login) == IF login.outcome = "ok" THEN login.user_data ELSE None

\* Mutant: the entry is titled with the lower-cased unique id.
CreateEntry_LowerTitle(username, user_data) ==
    [unique_id |-> flow_unique_id,
     title |-> Lower(username),
     data |-> [username |-> username,
               user_data |-> user_data,
               base_url |-> flow_client[1].base_url]]

\* _create_entry, with the unique id the flow manager stores on the entry.
CreateEntry(username, user_data) ==
    [unique_id |-> flow_unique_id,
     title |-> username,
     data |-> [username |-> username,
               user_data |-> user_data,
               base_url |-> flow_client[1].base_url]]

\* async_step_code: whether the entry is created.
EntryCreated(user_data, username) == user_data # None /\ TruthyStr(username)

async_step_code(user_input, login) ==
    /\ flow_step = "code"
    /\ IF user_input = None
       THEN /\ flow_errors' = None
            /\ flow_last' = ShowForm("code", None)
            /\ UNCHANGED <<flow_step, entries>>
       ELSE LET user_data == CodeLogin(login)
                call == Some([client |-> flow_client[1],
                              outcome |-> login.outcome,
                              user_data |-> login.user_data])
            IN /\ flow_errors' = CodeLoginError(login.outcome)
               /\ IF EntryCreated(user_data, flow_username)
                  THEN /\ entries' = Append(entries,
                                       CreateEntry(flow_username[1], user_data[1]))
                       /\ flow_step' = "done"
                       /\ flow_last' = [NoFlowLast EXCEPT
                                          !.type = "create_entry",
                                          !.login = call]
                  ELSE /\ flow_last' =
                            [ShowForm("code", CodeLoginError(login.outcome))
                               EXCEPT !.login = call]
                       /\ UNCHANGED <<flow_step, entries>>
    /\ UNCHANGED <<flow_username, flow_unique_id, flow_client>>
    /\ UNCHANGED nonFlowVars

\* RoborockFlowHandler.__init__: the user starts another flow.
NewFlow ==
    /\ flow_step # "init"
    /\ Len(entries) < MaxEntries
    /\ flow_step' = "init"
    /\ flow_username' = None
    /\ flow_unique_id' = None
    /\ flow_errors' = None
    /\ flow_client' = None
    /\ flow_last' = NoFlowLast
    /\ UNCHANGED entries
    /\ UNCHANGED nonFlowVars

----------------------------------------------------------------------------
(* Husqvarna Automower config flow.  Its handler is not among the sources;  *)
(* it is modelled from what tests/components/husqvarna_automower/           *)
(* test_config_flow.py expects of it.                                       *)

HqUserIds == {"user-id", "wrong-user-id"}
HqAccessTokens == {"jwt", "mock-updated-token"}
HqRefreshTokens == {"3012bc9f", "mock-refresh-token"}

\* The token the OAuth token exchange returns.
HqTokens == [user_id : HqUserIds,
             access_token : HqAccessTokens,
             refresh_token : HqRefreshTokens]

HqNoLast == [type |-> "none", reason |-> "", step_id |-> "", token |-> None]

\* A flow started by the user waits at the external OAuth step.
HqStartUserFlow ==
    /\ hq_flow = None
    /\ hq_flow' = Some([source |-> "user", step |-> "auth",
                        reauth_entry |-> None])
    /\ hq_last' = [HqNoLast EXCEPT !.type = "external", !.step_id = "auth"]
    /\ UNCHANGED hq_entries
    /\ UNCHANGED nonHqVars

\* entry.async_start_reauth: the flow waits at step reauth_confirm.
HqStartReauth(uid) ==
    /\ hq_flow = None
    /\ uid \in DOMAIN hq_entries
    /\ hq_flow' = Some([source |-> "reauth", step |-> "reauth_confirm",
                        reauth_entry |-> Some(uid)])
    /\ hq_last' = [HqNoLast EXCEPT !.type = "form",
                                   !.step_id = "reauth_confirm"]
    /\ UNCHANGED hq_entries
    /\ UNCHANGED nonHqVars

\* The user confirms the reauthentication: on to the external OAuth step.
HqReauthConfirm ==
    /\ hq_flow # None
    /\ hq_flow[1].step = "reauth_confirm"
    /\ hq_flow' = Some([hq_flow[1] EXCEPT !.step = "auth"])
    /\ hq_last' = [HqNoLast EXCEPT !.type = "external", !.step_id = "auth"]
    /\ UNCHANGED hq_entries
    /\ UNCHANGED nonHqVars

\* Mutant: a reauthentication accepts any account.
HqOAuthResult_AnyAccount(f, token, ents) ==
    IF f.reauth_entry # None THEN "reauth_successful"
    ELSE IF token.user_id \in DOMAIN ents THEN "already_configured"
    ELSE "create_entry"

\* Mutant: a user flow does not look for an entry of the same account.
HqOAuthResult_NotUnique(f, token, ents) ==
    IF f.reauth_entry # None
    THEN IF f.reauth_entry[1] # token.user_id THEN "wrong_account"
         ELSE "reauth_successful"
    ELSE "create_entry"

\* How the flow ends once the token exchange has returned `token`.
HqOAuthResult(f, token, ents) ==
    IF f.reauth_entry # None
    THEN IF f.reauth_entry[1] # token.user_id THEN "wrong_account"
         ELSE "reauth_successful"
    ELSE IF token.user_id \in DOMAIN ents THEN "already_configured"
    ELSE "create_entry"

\* Mutant: a successful reauthentication keeps the stored token.
HqEntriesAfter_KeepToken(result, f, token, ents) ==
    IF result = "create_entry"
    THEN [u \in DOMAIN ents \cup {token.user_id} |->
             IF u = token.user_id THEN token ELSE ents[u]]
    ELSE ents

\* The entries once the flow has ended with `result`.
HqEntriesAfter(result, f, token, ents) ==
    IF result = "reauth_successful"
    THEN [ents EXCEPT ![f.reauth_entry[1]] = token]
    ELSE IF result = "create_entry"
    THEN [u \in DOMAIN ents \cup {token.user_id} |->
             IF u = token.user_id THEN token ELSE ents[u]]
    ELSE ents

\* The OAuth token exchange returns and the flow creates the entry, updates
\* the entry being reauthenticated, or aborts.
HqOAuthCreateEntry(token) ==
    /\ hq_flow # None
    /\ hq_flow[1].step = "auth"
    /\ LET result == HqOAuthResult(hq_flow[1], token, hq_entries)
       IN /\ hq_entries' = HqEntriesAfter(result, hq_flow[1], token, hq_entries)
          /\ hq_last' = [type |-> IF result = "create_entry"
                                  THEN "create_entry" ELSE "abort",
                         reason |-> IF result = "create_entry" THEN ""
                                    ELSE result,
                         step_id |-> "",
                         token |-> Some(token)]
    /\ hq_flow' = None
    /\ UNCHANGED nonHqVars

----------------------------------------------------------------------------
(* OralB: async_setup_entry and async_unload_entry *)

ObEntryIds == 1..NumOralbEntries

\* PLATFORMS: list[Platform] = [Platform.SENSOR]
PLATFORMS == {"sensor"}

ObAddresses == {"78:DB:2F:C2:48:BE"}

\* A config entry comes to exist, with the unique id its flow gave it.
ObAddEntry(e, unique_id) ==
    /\ ob_pc[e] = "absent"
    /\ ob_unique_id' = [ob_unique_id EXCEPT ![e] = unique_id]
    /\ ob_pc' = [ob_pc EXCEPT ![e] = "not_loaded"]
    /\ UNCHANGED <<ob_data, ob_todo, ob_started, ob_log>>
    /\ UNCHANGED nonObVars

\* async_setup_entry up to its await of async_forward_entry_setups: the
\* assert on entry.unique_id, then the coordinator is put in hass.data.
ObSetupBegin(e) ==
    /\ ob_pc[e] \in {"not_loaded", "setup_error"}
    /\ IF ob_unique_id[e] = None
       THEN /\ ob_pc' = [ob_pc EXCEPT ![e] = "setup_error"]
            /\ ob_log' = [ob_log EXCEPT ![e] = <<"AssertionError">>]
            /\ UNCHANGED <<ob_data, ob_todo, ob_started>>
       ELSE /\ ob_data' = [x \in DOMAIN ob_data \cup {e} |->
                             IF x = e THEN ob_unique_id[e][1] ELSE ob_data[x]]
            /\ ob_pc' = [ob_pc EXCEPT ![e] = "forwarding"]
            /\ ob_todo' = [ob_todo EXCEPT ![e] = PLATFORMS]
            /\ ob_started' = [ob_started EXCEPT ![e] = FALSE]
            /\ ob_log' = [ob_log EXCEPT ![e] = <<"registered">>]
    /\ UNCHANGED ob_unique_id
    /\ UNCHANGED nonObVars

\* async_forward_entry_setups: the setup of one platform completes or raises;
\* an exception leaves async_setup_entry at its await.
ObPlatformSetup(e, p, raises) ==
    /\ ob_pc[e] = "forwarding"
    /\ p \in ob_todo[e]
    /\ IF raises
       THEN /\ ob_pc' = [ob_pc EXCEPT ![e] = "setup_error"]
            /\ ob_todo' = [ob_todo EXCEPT ![e] = {}]
            /\ ob_log' = [ob_log EXCEPT ![e] = Append(@, "platform_error")]
       ELSE /\ ob_todo' = [ob_todo EXCEPT ![e] = @ \ {p}]
            /\ ob_log' = [ob_log EXCEPT ![e] = Append(@, p)]
            /\ UNCHANGED ob_pc
    /\ UNCHANGED <<ob_unique_id, ob_data, ob_started>>
    /\ UNCHANGED nonObVars

\* Mutant: the coordinator is started without awaiting the platforms.
ObSetupFinish_Early(e) ==
    /\ ob_pc[e] = "forwarding"
    /\ ob_started' = [ob_started EXCEPT ![e] = TRUE]
    /\ ob_pc' = [ob_pc EXCEPT ![e] = "loaded"]
    /\ ob_todo' = [ob_todo EXCEPT ![e] = {}]
    /\ ob_log' = [ob_log EXCEPT ![e] = Append(@, "started")]
    /\ UNCHANGED <<ob_unique_id, ob_data>>
    /\ UNCHANGED nonObVars

\* async_setup_entry after the await: coordinator.async_start(), whose
\* cancel callback is registered with entry.async_on_unload; return True.
ObSetupFinish(e) ==
    /\ ob_pc[e] = "forwarding"
    /\ ob_todo[e] = {}
    /\ ob_started' = [ob_started EXCEPT ![e] = TRUE]
    /\ ob_pc' = [ob_pc EXCEPT ![e] = "loaded"]
    /\ ob_log' = [ob_log EXCEPT ![e] = Append(@, "started")]
    /\ UNCHANGED <<ob_unique_id, ob_data, ob_todo>>
    /\ UNCHANGED nonObVars

\* Mutant: the coordinator is popped whatever the platforms answered.
ObDataAfterUnload_Always(data, e, unload_ok) ==
    [x \in DOMAIN data \ {e} |-> data[x]]

\* async_unload_entry: hass.data[DOMAIN] after the call, given the result of
\* async_unload_platforms.
ObDataAfterUnload(data, e, unload_ok) ==
    IF unload_ok THEN [x \in DOMAIN data \ {e} |-> data[x]] ELSE data

\* async_unload_entry: `return unload_ok`.
ObUnloadReturn(unload_ok) == unload_ok

\* async_unload_entry: the coordinator is popped from hass.data when the
\* platforms unloaded; the entry's on-unload callback then stops it.
ObUnload(e, unload_ok) ==
    /\ ob_pc[e] = "loaded"
    /\ IF unload_ok
       THEN /\ ob_pc' = [ob_pc EXCEPT ![e] = "not_loaded"]
            /\ ob_started' = [ob_started EXCEPT ![e] = FALSE]
       ELSE UNCHANGED <<ob_pc, ob_started>>
    /\ ob_data' = ObDataAfterUnload(ob_data, e, unload_ok)
    /\ ob_log' = [ob_log EXCEPT ![e] =
                      <<IF unload_ok THEN "unloaded" ELSE "unload_failed",
                        IF ObUnloadReturn(unload_ok) THEN "return_true"
                        ELSE "return_false">>]
    /\ UNCHANGED <<ob_unique_id, ob_todo>>
    /\ UNCHANGED nonObVars

----------------------------------------------------------------------------
(* Specification of the coordinator and its entity *)

CoordInit ==
    /\ api = LOCAL_CLIENT
    /\ is_available = [c \in Clients |-> TRUE]
    /\ props = EmptyDeviceProp
    /\ current_map = None
    /\ needed_cache_keys = <<>>
    /\ maps = <<>>
    /\ entity = None
    /\ pc = "idle"
    /\ pending = {}
    /\ send_ctx = None
    /\ last = NoLast
    /\ verified = FALSE

FlowInit ==
    /\ flow_step = "init"
    /\ flow_username = None
    /\ flow_unique_id = None
    /\ flow_errors = None
    /\ flow_client = None
    /\ entries = <<>>
    /\ flow_last = NoFlowLast

HqInit ==
    /\ hq_entries = <<>>
    /\ hq_flow = None
    /\ hq_last = HqNoLast

ObInit ==
    /\ ob_unique_id = [e \in ObEntryIds |-> None]
    /\ ob_data = <<>>
    /\ ob_pc = [e \in ObEntryIds |-> "absent"]
    /\ ob_todo = [e \in ObEntryIds |-> {}]
    /\ ob_started = [e \in ObEntryIds |-> FALSE]
    /\ ob_log = [e \in ObEntryIds |-> <<>>]

Init == CoordInit /\ FlowInit /\ HqInit /\ ObInit

Next ==
    \/ \E ping \in PingOutcomes : verify_api(ping)
    \/ release
    \/ \E out \in GetPropOutcomes : PollStart(out)
    \/ \E i \in 1..MaxNeededKeys, raises \in BOOLEAN : RecoverRead(i, raises)
    \/ RecoverDone
    \/ \E result \in MultiMapsLists : get_maps(result)
    \/ \E k \in CacheableAttribute : AddNeededCacheKey(k)
    \/ \E c \in Clients : ClientBecomesUnavailable(c)
    \/ \E kind \in EntityKinds, c \in Clients : ConstructEntity(kind, c)
    \/ \E cmd \in RoborockCommands, out \in SendOutcomes : EntitySend(cmd, out)
    \/ \E value \in ListenerValues : UpdateFromListener(value)

Spec == Init /\ [][Next]_vars

FlowNext ==
    \/ \E user_input \in Opt(Usernames), base_url \in BaseUrls,
          outcome \in CallOutcomes :
            async_step_user(user_input, base_url, outcome)
    \/ \E user_input \in Opt(EntryCodes), login \in LoginOutcomes :
            async_step_code(user_input, login)
    \/ NewFlow

FlowSpec == Init /\ [][FlowNext]_vars

HqNext ==
    \/ HqStartUserFlow
    \/ \E uid \in HqUserIds : HqStartReauth(uid)
    \/ HqReauthConfirm
    \/ \E token \in HqTokens : HqOAuthCreateEntry(token)

HqSpec == Init /\ [][HqNext]_vars

ObNext ==
    \/ \E e \in ObEntryIds, unique_id \in Opt(ObAddresses) :
            ObAddEntry(e, unique_id)
    \/ \E e \in ObEntryIds : ObSetupBegin(e)
    \/ \E e \in ObEntryIds, p \in PLATFORMS, raises \in BOOLEAN :
            ObPlatformSetup(e, p, raises)
    \/ \E e \in ObEntryIds : ObSetupFinish(e)
    \/ \E e \in ObEntryIds, unload_ok \in BOOLEAN : ObUnload(e, unload_ok)

ObSpec == Init /\ [][ObNext]_vars

----------------------------------------------------------------------------
(* Properties *)

\* The calls of the most recent step to one method, in order.
CallsTo(method) == SelectSeq(last.calls, LAMBDA c : c.method = method)

\* How often x occurs in the sequence q.
Count(q, x) == Cardinality({i \in 1..Len(q) : q[i] = x})

\* The keys read by the recovery replay of the most recent poll, in order.
ReplayedKeys == [i \in 1..Len(CallsTo("async_value")) |->
                    CallsTo("async_value")[i].arg]

\* C1: a verify_api call that starts on the local client and whose ping
\* raises RoborockException ends with api the cloud client and raises
\* nothing; when the ping succeeds api stays the local client.
C1_FallbackOnProbeFailure ==
    (last.op = "verify_api" /\ IsLocalClient(last.api_at_start)) =>
        /\ Len(CallsTo("ping")) = 1
        /\ CallsTo("ping")[1].result = "RoborockException" =>
              (api = CLOUD_CLIENT /\ last.verify = "return")
        /\ CallsTo("ping")[1].result = "ok" =>
              (api = LOCAL_CLIENT /\ last.verify = "return")

C1_Witness ==
    /\ last.op = "verify_api"
    /\ IsLocalClient(last.api_at_start)
    /\ CallsTo("ping") = <<Call(LOCAL_CLIENT, "ping", "", "RoborockException")>>
    /\ api = CLOUD_CLIENT

\* C2 as stated: once a verify_api call has completed, no step changes
\* which client api refers to.
C2_SelectedOnce == [][verified => api' = api]_vars

\* C2 amended: once a verify_api call has completed, the only step that
\* changes api is a further verify_api call that starts on the local client
\* and whose ping raises RoborockException; it changes api to the cloud client.
C2_OnlyVerifyFallsBack ==
    [][(verified /\ api' # api) =>
          /\ api = LOCAL_CLIENT
          /\ api' = CLOUD_CLIENT
          /\ last'.op = "verify_api"
          /\ last'.calls = <<Call(LOCAL_CLIENT, "ping", "", "RoborockException")>>
      ]_vars

C2_Witness ==
    /\ last.op = "verify_api"
    /\ last.reverify
    /\ last.api_at_start = LOCAL_CLIENT
    /\ api = CLOUD_CLIENT

\* C3: every RoborockException raised by a client call of a poll (get_prop
\* or a replayed cached read) leaves the poll as UpdateFailed.
C3_PollTranslatesVendorErrors ==
    (/\ last.poll # "none"
     /\ \E i \in 1..Len(last.calls) :
           /\ last.calls[i].method \in {"get_prop", "async_value"}
           /\ last.calls[i].result = "RoborockException")
        => last.poll = "UpdateFailed"

\* C4: when send_command raises RoborockException the send raises
\* HomeAssistantError (command_failed), returns no response, and asks the
\* coordinator for no refresh: no poll runs.
C4_SendFailureTranslated ==
    (/\ last.op = "send"
     /\ CallsTo("send_command") # <<>>
     /\ CallsTo("send_command")[1].result = "RoborockException")
        => /\ last.send = "HomeAssistantError"
           /\ last.translation_key = "command_failed"
           /\ last.response = None
           /\ last.refreshes = 0
           /\ CallsTo("async_refresh") = <<>>
           /\ CallsTo("get_prop") = <<>>
           /\ last.poll = "none"
           /\ pc = "idle"

C4_Witness ==
    /\ last.op = "send"
    /\ entity # None
    /\ entity[1].kind = "coordinated"
    /\ CallsTo("send_command")[1].result = "RoborockException"
    /\ last.send = "HomeAssistantError"

\* C5: a poll that obtains the needed props while api is marked not
\* available replays the cached read of every key of needed_cache_keys and
\* marks api available only after all of them have completed; a poll that
\* finds api available replays nothing.
C5_RecoveryReplay ==
    /\ (pc = "recover" /\ pending # {}) => ~is_available[api]
    /\ (last.poll = "return" /\ ~last.was_available) =>
          /\ is_available[api]
          /\ Len(ReplayedKeys) = Len(needed_cache_keys)
          /\ \A k \in CacheableAttribute :
                Count(ReplayedKeys, k) = Count(needed_cache_keys, k)
          /\ \A i \in 1..Len(CallsTo("async_value")) :
                CallsTo("async_value")[i].result = "ok"
          /\ last.calls[Len(last.calls)].method = "set_available"
          /\ Len(CallsTo("set_available")) = 1
    /\ (last.poll # "none" /\ last.was_available) =>
          /\ CallsTo("async_value") = <<>>
          /\ CallsTo("set_available") = <<>>

C5_Witness ==
    /\ last.poll = "return"
    /\ ~last.was_available
    /\ is_available[api]
    /\ Len(needed_cache_keys) = 2
    /\ needed_cache_keys[1] # needed_cache_keys[2]
    /\ ReplayedKeys = <<needed_cache_keys[2], needed_cache_keys[1]>>

\* consumable, clean_summary and status are all set.
AllNeededSet(p) ==
    p.consumable # None /\ p.clean_summary # None /\ p.status # None

\* C6: a poll returns data only when consumable, clean_summary and status
\* of the stored props are all set; when one of them is None after the
\* update step the poll fails with UpdateFailed, runs no recovery and leaves
\* is_available as it was.
C6_NullCheckBeforeUse ==
    (last.poll # "none") =>
        /\ last.poll = "return" =>
              (AllNeededSet(props) /\ last.data = Some(props))
        /\ ~AllNeededSet(props) =>
              /\ last.poll = "UpdateFailed"
              /\ last.data = None
              /\ CallsTo("async_value") = <<>>
              /\ CallsTo("set_available") = <<>>
              /\ is_available[api] = last.was_available

C6_Witness ==
    /\ last.poll = "UpdateFailed"
    /\ CallsTo("get_prop")[1].result = "ok"
    /\ props.consumable # None
    /\ props.clean_summary # None
    /\ props.status = None
    /\ ~is_available[api]

\* C7: a verify_api call issues at most one ping, only to the local
\* client, never retries it, and has ended after that single attempt.
C7_NoRetryBudget ==
    (last.op = "verify_api") =>
        /\ Len(last.calls) <= 1
        /\ \A i \in 1..Len(last.calls) :
              /\ last.calls[i].method = "ping"
              /\ last.calls[i].client = LOCAL_CLIENT
        /\ last.api_at_start = CLOUD_CLIENT => last.calls = <<>>
        /\ last.verify \in {"return", "Exception"}
        /\ pc = "idle"

C7_Witness ==
    /\ last.op = "verify_api"
    /\ last.calls = <<Call(LOCAL_CLIENT, "ping", "", "RoborockException")>>
    /\ last.verify = "return"

\* C8: an entry is created only by a code step whose code_login, on the
\* client whose request_code succeeded for the entered username, returned
\* user data; its title and username are that username and its data holds
\* that user data and that client's base_url.
C8_EntryOnlyAfterLogin ==
    [][Len(entries') > Len(entries) =>
          /\ entries' = Append(entries, entries'[Len(entries')])
          /\ flow_last'.type = "create_entry"
          /\ flow_client # None
          /\ flow_client[1].code_requested
          /\ flow_last'.login # None
          /\ flow_last'.login[1].client = flow_client[1]
          /\ flow_last'.login[1].outcome = "ok"
          /\ flow_last'.login[1].user_data # None
          /\ LET e == entries'[Len(entries')]
             IN /\ e.title = flow_client[1].username
                /\ e.data.username = flow_client[1].username
                /\ e.data.user_data = flow_last'.login[1].user_data[1]
                /\ e.data.base_url = flow_client[1].base_url
      ]_vars

C8_Witness ==
    /\ flow_last.type = "create_entry"
    /\ Len(entries) = 2
    /\ entries[2].title = "User@Example.com"
    /\ entries[2].data.base_url # entries[1].data.base_url

\* C9: a coordinated entity's send whose command succeeds dispatches the
\* command once, then refreshes the coordinator once, after the command has
\* completed, and returns the command's response.
C9_CoordinatedSendRefreshes ==
    (/\ last.op = "send"
     /\ entity # None
     /\ entity[1].kind = "coordinated"
     /\ CallsTo("send_command") # <<>>
     /\ CallsTo("send_command")[1].result \in Responses)
        => /\ Len(CallsTo("send_command")) = 1
           /\ Len(CallsTo("async_refresh")) = 1
           /\ last.refreshes = 1
           /\ last.calls[1].method = "send_command"
           /\ last.calls[1].client = entity[1].api
           /\ last.calls[2].method = "async_refresh"
           /\ pc = "refresh" => (last.send = "none" /\ last.poll = "none")
           /\ pc = "idle" =>
                 /\ last.send = "return"
                 /\ last.response = Some(CallsTo("send_command")[1].result)
                 /\ Len(CallsTo("get_prop")) = 1
                 /\ last.poll # "none"

C9_Witness ==
    /\ last.op = "send"
    /\ entity # None
    /\ entity[1].kind = "coordinated"
    /\ last.send = "return"
    /\ last.response = Some("response_2")
    /\ last.poll = "return"

\* C10: when request_code raises RoborockException the user form is shown
\* again with base error invalid_email, and for any other exception with
\* base error unknown; the flow stays at the user step and records no client.
C10_UserStepErrors ==
    (flow_last.request # None /\ flow_last.request[1].outcome # "ok") =>
        /\ flow_last.type = "form"
        /\ flow_last.step_id = "user"
        /\ flow_last.request[1].outcome = "RoborockException" =>
              flow_last.errors = Some("invalid_email")
        /\ flow_last.request[1].outcome = "Exception" =>
              flow_last.errors = Some("unknown")
        /\ flow_errors = flow_last.errors
        /\ flow_step = "user"
        /\ flow_client = None

C10_Witness ==
    /\ flow_last.request # None
    /\ flow_last.request[1].outcome = "Exception"
    /\ flow_last.errors = Some("unknown")
    /\ flow_step = "user"
    /\ Len(entries) = 1

\* C11: when code_login raises RoborockException the code form is shown
\* again with base error invalid_code, and for any other exception with base
\* error unknown; no entry is created and the flow stays at the code step;
\* a valid code submitted after such a failure creates the entry.
C11_CodeStepErrors ==
    [][(flow_step = "code" /\ flow_last'.login # None) =>
          /\ flow_last'.login[1].outcome # "ok" =>
                /\ flow_last'.type = "form"
                /\ flow_last'.step_id = "code"
                /\ flow_last'.login[1].outcome = "RoborockException" =>
                      flow_last'.errors = Some("invalid_code")
                /\ flow_last'.login[1].outcome = "Exception" =>
                      flow_last'.errors = Some("unknown")
                /\ flow_errors' = flow_last'.errors
                /\ entries' = entries
                /\ flow_step' = "code"
          /\ (/\ flow_last.login # None
              /\ flow_last.login[1].outcome # "ok"
              /\ flow_last'.login[1].outcome = "ok") =>
                /\ flow_last'.type = "create_entry"
                /\ Len(entries') = Len(entries) + 1
                /\ flow_step' = "done"
      ]_vars

\* The step in which the Husqvarna flow's token exchange returns.
HqTokenReturned == hq_flow # None /\ hq_flow[1].step = "auth" /\ hq_flow' = None

\* C12: a reauth flow whose token exchange returns a user_id other than the
\* entry's unique id aborts with wrong_account and leaves every entry, its
\* unique id and its stored token, as it was; no entry is added.
C12_ReauthWrongAccount ==
    [][(/\ HqTokenReturned
        /\ hq_flow[1].reauth_entry # None
        /\ hq_last'.token[1].user_id # hq_flow[1].reauth_entry[1]) =>
          /\ hq_last'.type = "abort"
          /\ hq_last'.reason = "wrong_account"
          /\ DOMAIN hq_entries' = DOMAIN hq_entries
          /\ hq_entries' = hq_entries
      ]_vars

C12_Witness ==
    /\ hq_last.type = "abort"
    /\ hq_last.reason = "wrong_account"
    /\ hq_last.token[1].user_id = "wrong-user-id"
    /\ hq_last.token[1].access_token = "mock-updated-token"
    /\ DOMAIN hq_entries = {"user-id"}
    /\ hq_entries["user-id"].access_token = "jwt"
    /\ hq_entries["user-id"].refresh_token = "3012bc9f"

\* C13: a reauth flow, which starts at step reauth_confirm, whose token
\* exchange returns the entry's own user_id aborts with reauth_successful,
\* stores the new token on that entry and leaves the unique ids, and so the
\* number of entries, as they were.
C13_ReauthSuccessful ==
    [][/\ (hq_flow = None /\ hq_flow' # None /\ hq_flow'[1].source = "reauth")
          => (hq_flow'[1].step = "reauth_confirm"
              /\ hq_last'.step_id = "reauth_confirm")
       /\ (/\ HqTokenReturned
           /\ hq_flow[1].reauth_entry # None
           /\ hq_last'.token[1].user_id = hq_flow[1].reauth_entry[1]) =>
             /\ hq_last'.type = "abort"
             /\ hq_last'.reason = "reauth_successful"
             /\ DOMAIN hq_entries' = DOMAIN hq_entries
             /\ hq_entries'[hq_flow[1].reauth_entry[1]] = hq_last'.token[1]
             /\ \A u \in DOMAIN hq_entries :
                   u # hq_flow[1].reauth_entry[1] =>
                      hq_entries'[u] = hq_entries[u]
      ]_vars

C13_Witness ==
    /\ hq_last.type = "abort"
    /\ hq_last.reason = "reauth_successful"
    /\ DOMAIN hq_entries = {"user-id"}
    /\ hq_entries["user-id"].access_token = "mock-updated-token"
    /\ hq_entries["user-id"].refresh_token = "mock-refresh-token"

\* C14: a user flow whose token exchange returns a user_id that is the
\* unique id of a configured entry aborts with already_configured and
\* neither adds nor changes an entry.
C14_AlreadyConfigured ==
    [][(/\ HqTokenReturned
        /\ hq_flow[1].source = "user"
        /\ hq_last'.token[1].user_id \in DOMAIN hq_entries) =>
          /\ hq_last'.type = "abort"
          /\ hq_last'.reason = "already_configured"
          /\ hq_entries' = hq_entries
      ]_vars

C14_Witness ==
    /\ hq_last.type = "abort"
    /\ hq_last.reason = "already_configured"
    /\ hq_last.token[1].user_id = "user-id"
    /\ hq_last.token[1].access_token = "mock-updated-token"
    /\ DOMAIN hq_entries = {"user-id"}
    /\ hq_entries["user-id"].access_token = "jwt"

\* Positions of event x in the log of OralB entry e.
ObAt(e, x) == {i \in 1..Len(ob_log[e]) : ob_log[e][i] = x}

\* C15: async_setup_entry registers the coordinator in hass.data before
\* platform setup begins, starts it only after the setup of every platform
\* has completed, and never starts it when platform setup raises.
C15_OralbSetupOrdering ==
    \A e \in ObEntryIds :
        /\ ob_pc[e] = "forwarding" =>
              /\ e \in DOMAIN ob_data
              /\ ob_data[e] = ob_unique_id[e][1]
              /\ ~ob_started[e]
        /\ \A p \in PLATFORMS \cup {"platform_error"} :
              \A i \in ObAt(e, p) : \E j \in ObAt(e, "registered") : j < i
        /\ \A i \in ObAt(e, "started") :
              /\ \A p \in PLATFORMS : \E j \in ObAt(e, p) : j < i
              /\ ObAt(e, "platform_error") = {}
              /\ i = Len(ob_log[e])
        /\ ob_started[e] => (ob_pc[e] = "loaded" /\ e \in DOMAIN ob_data)
        /\ ob_pc[e] = "setup_error" =>
              (~ob_started[e] /\ ObAt(e, "started") = {})

C15_Witness ==
    \E e, f \in ObEntryIds :
        /\ ob_log[e] = <<"registered", "sensor", "started">>
        /\ ob_started[e]
        /\ ob_log[f] = <<"registered", "platform_error">>
        /\ ob_pc[f] = "setup_error"
        /\ f \in DOMAIN ob_data

\* C16: once api is the cloud client it stays the cloud client, and a
\* verify_api call made then pings nothing and changes nothing.
C16_CloudIsFinal ==
    [][api = CLOUD_CLIENT =>
          /\ api' = CLOUD_CLIENT
          /\ last'.op = "verify_api" =>
                /\ last'.calls = <<>>
                /\ last'.verify = "return"
                /\ UNCHANGED <<is_available, props, current_map,
                               needed_cache_keys, maps, entity, pc, pending,
                               send_ctx>>
      ]_vars

C16_Witness ==
    /\ last.op = "verify_api"
    /\ last.api_at_start = CLOUD_CLIENT
    /\ last.calls = <<>>
    /\ api = CLOUD_CLIENT
    /\ ~is_available[CLOUD_CLIENT]

\* C17: the client of a coordinated entity is the client the coordinator
\* uses, in every state.
C17_EntityUsesCoordinatorApi ==
    (entity # None /\ entity[1].kind = "coordinated") => entity[1].api = api

\* The step that runs _async_update_data up to the end of its update.
PollStartStep ==
    /\ pc \in {"idle", "refresh"}
    /\ last'.calls # <<>>
    /\ last'.calls[Len(last'.calls)].method = "get_prop"

\* The result of the get_prop call of that step.
GetPropResult == last'.calls[Len(last'.calls)].result

\* The cached reads the poll in progress has made, after the step.
ReadsAfter == SelectSeq(last'.calls, LAMBDA c : c.method = "async_value")

\* C18: a poll in which a replayed read fails does not mark api available;
\* a poll that then obtains the needed props while api is still marked
\* unavailable starts the replay of all keys again; a client's flag becomes
\* True only in a poll that has replayed every key successfully.
C18_FailedReplayIsRetried ==
    [][/\ (pc = "recover" /\ last'.poll = "RoborockException") =>
             (is_available' = is_available /\ ~is_available'[api'])
       /\ (/\ PollStartStep
           /\ GetPropResult = "ok"
           /\ ~is_available[api]
           /\ AllNeededSet(props')) =>
             (pc' = "recover" /\ pending' = 1..Len(needed_cache_keys))
       /\ \A c \in Clients :
             (~is_available[c] /\ is_available'[c]) =>
                /\ c = api
                /\ pc = "recover"
                /\ last'.poll = "return"
                /\ Len(ReadsAfter) = Len(needed_cache_keys)
                /\ \A k \in CacheableAttribute :
                      Cardinality({i \in 1..Len(ReadsAfter) :
                                      ReadsAfter[i].arg = k})
                         = Count(needed_cache_keys, k)
                /\ \A i \in 1..Len(ReadsAfter) : ReadsAfter[i].result = "ok"
      ]_vars

C18_Witness ==
    /\ last.poll = "RoborockException"
    /\ ~is_available[api]
    /\ Len(CallsTo("async_value")) = 2
    /\ CallsTo("async_value")[1].result = "ok"
    /\ CallsTo("async_value")[2].result = "RoborockException"
    /\ CallsTo("set_available") = <<>>

\* C19: after an update whose stored status has a map_status, current_map
\* is (map_status - 3) // 4, the flag f of map_status = 4 * f + 3; without
\* a status or a map_status current_map keeps its value.
C19_CurrentMapDecoding ==
    [][(PollStartStep /\ GetPropResult = "ok") =>
          IF props'.status # None /\ props'.status[1].map_status # None
          THEN \E f \in 0..MaxMapFlag :
                  /\ props'.status[1].map_status[1] = 4 * f + 3
                  /\ current_map' = Some(f)
          ELSE current_map' = current_map
      ]_vars

C19_Witness ==
    /\ last.op = "poll"
    /\ CallsTo("get_prop")[1].result = "ok"
    /\ props.status # None
    /\ props.status[1].map_status = None
    /\ current_map = Some(MaxMapFlag)

\* C20: a poll in which get_prop raises RoborockException leaves the stored
\* props, current_map, the selected api and the is_available flags unchanged.
C20_FailedPollChangesNothing ==
    [][(PollStartStep /\ GetPropResult = "RoborockException") =>
          /\ UNCHANGED <<props, current_map, api, is_available>>
          /\ last'.poll = "UpdateFailed"
      ]_vars

C20_Witness ==
    /\ last.op = "poll"
    /\ last.poll = "UpdateFailed"
    /\ CallsTo("get_prop")[1].result = "RoborockException"
    /\ AllNeededSet(props)
    /\ current_map # None
    /\ ~is_available[api]

\* C21: a poll in which get_prop returns nothing, made while the stored
\* props have consumable, clean_summary and status set, succeeds and returns
\* the stored props.
C21_EmptyResultStillSucceeds ==
    (/\ pc = "idle"
     /\ CallsTo("get_prop") # <<>>
     /\ last.empty_result
     /\ AllNeededSet(props)) =>
        (last.poll = "return" /\ last.data = Some(props))

\* C22: async_unload_entry removes the entry's coordinator from
\* hass.data[DOMAIN] exactly when the platform unload succeeds, leaves
\* hass.data unchanged when it fails, and returns the platform unload result;
\* no other step removes a coordinator.
C22_OralbUnload ==
    [][\A e \in ObEntryIds :
          /\ (ob_pc[e] = "loaded" /\ ob_log'[e] # ob_log[e]) =>
                /\ Len(ob_log'[e]) = 2
                /\ ob_log'[e][1] \in {"unloaded", "unload_failed"}
                /\ ob_log'[e][2] = IF ob_log'[e][1] = "unloaded"
                                   THEN "return_true" ELSE "return_false"
                /\ IF ob_log'[e][1] = "unloaded"
                   THEN /\ DOMAIN ob_data' = DOMAIN ob_data \ {e}
                        /\ \A x \in DOMAIN ob_data' : ob_data'[x] = ob_data[x]
                   ELSE ob_data' = ob_data
          /\ (e \in DOMAIN ob_data /\ e \notin DOMAIN ob_data') =>
                /\ ob_pc[e] = "loaded"
                /\ ob_log'[e] = <<"unloaded", "return_true">>
      ]_vars

C22_Witness ==
    \E e1, e2, e3 \in ObEntryIds :
        /\ ob_log[e1] = <<"unloaded", "return_true">>
        /\ e1 \notin DOMAIN ob_data
        /\ ob_log[e2] = <<"unload_failed", "return_false">>
        /\ e2 \in DOMAIN ob_data
        /\ ob_pc[e2] = "loaded"
        /\ e3 \in DOMAIN ob_data
        /\ e3 \notin {e1, e2}

====
